---- MODULE Spec2Model ----
(***************************************************************************)
(* ghcrawl: the paginated, rate-limit-aware enumerator of src/github_api.rs *)
(* (page_stream, get_repositories, get_from_url, get_reset) driven by the   *)
(* consumer loops of src/bin/ghcrawl.rs.                                    *)
(*                                                                         *)
(* One enumeration is modelled: a consumer pulls items from the stream      *)
(* returned by get_occurrences or get_repositories; a pull that finds no    *)
(* buffered item drives the unfold closures, which call the page fetch,     *)
(* which runs the retry loop of get_from_url against a search server.       *)
(*                                                                         *)
(* u64 values are represented by their residue of least magnitude: a        *)
(* negative representative k stands for the u64 value 2^64 + k, so that     *)
(* wrapping arithmetic on them is integer arithmetic.                       *)
(***************************************************************************)
EXTENDS Integers, Sequences, FiniteSets, TLC

VARIABLES
    overflow_checks,  \* build profile: TRUE = arithmetic overflow panics, FALSE = it wraps
    api,              \* which stream main consumes: "get_occurrences" | "get_repositories"
    total,            \* server: number of code matches of the occurrence query
    population,       \* server: repositories, as <<[stars, count]>> by descending stars
    min_stars,        \* get_repositories: the caller's q.min_stars
    max_stars,        \* get_repositories: the caller's q.max_stars
    enumerators,      \* streams polled side by side over one GithubApi: name -> its state
    process,          \* with them: the single fetch in progress, and whether a panic hit
    unfold_state,     \* get_repositories: state of the outer unfold (next upper bound)
    inner,            \* flatten: TRUE while an inner page_stream is being drained
    query,            \* the query of the current page_stream
    page,             \* page_stream: state of its unfold, <<>> = None, <<n>> = Some(n)
    buffer,           \* items of the last fetched page not yet yielded (stream::iter)
    yielded,          \* every item handed to the consumer so far
    streamStart,      \* Len(yielded) when the current page_stream was created
    pagesFetched,     \* page numbers passed to f by the current page_stream
    windows,          \* star windows for which get_repositories_with_stars was called
    pc,               \* consumer/stream position: idle | polling | fetching | done | panicked
    tpc,              \* get_from_url position: idle | sending | sleeping | panicked
    url,              \* URL built by get for the fetch in progress
    attempts,         \* URLs of the GETs of the call in progress that were answered
                      \* with a non-2xx response or failed
    inflight,         \* HTTP requests sent and not answered yet
    log,              \* tracing records of the attempt in progress, oldest first
    throttled,        \* non-2xx responses answered to the fetch in progress
    wait,             \* seconds of the tokio::time::sleep in progress (0: none)
    resp              \* the response try_get_from_url is handling or last returned on

vars == <<overflow_checks, api, total, population, min_stars, max_stars, enumerators,
          process, unfold_state,
          inner, query, page, buffer, yielded, streamStart, pagesFetched, windows,
          pc, tpc, url, attempts, inflight, log, throttled, wait, resp>>

streamVars == <<inner, query, page, buffer, yielded, streamStart, pagesFetched,
                windows, unfold_state>>
transportVars == <<tpc, url, attempts, inflight, log, throttled, wait, resp>>
inputVars == <<overflow_checks, api, total, population, min_stars, max_stars,
               enumerators, process>>

-----------------------------------------------------------------------------
(* Program constants *)
PER_PAGE == 100
PAGE_CEILING == 10
SECONDARY_WAIT == 60
DEPLOYED_MIN_STARS == 1000
DEPLOYED_MAX_STARS == 128000

(* Bounds of the model *)
MaxFullPages == 11   \* the server holds up to MaxFullPages full pages (+ a short one)
ShortPage == 40      \* length of the short last page
MaxStars == 6        \* small star ranges: 0 <= min_stars <= max_stars <= MaxStars
MaxWindows == 8      \* windows get_repositories may query before the model stops it
MaxThrottles == 2    \* non-2xx answers the server gives to one fetch
MaxClock == 2        \* clock readings 1..MaxClock (epoch seconds)
MaxReset == 7        \* X-RateLimit-Reset values 0..MaxReset (epoch seconds)
MaxBackoffs == 1     \* non-2xx answers to one fetch of a stream polled beside another

Min(a, b) == IF a < b THEN a ELSE b
Max(a, b) == IF a > b THEN a ELSE b

None == <<>>
Some(v) == <<v>>

-----------------------------------------------------------------------------
(* The search server *)

RECURSIVE Expand(_)
Expand(pop) ==
    IF pop = <<>> THEN <<>>
    ELSE [i \in 1..Head(pop).count |->
             [full_name |-> <<Head(pop).stars, i>>,
              stargazers_count |-> Head(pop).stars]] \o Expand(Tail(pop))

InWindow(e, q) == q.min_stars <= e.stars /\ e.stars <= q.max_stars

\* every match of a query, in the order the server ranks them
Matches(q) ==
    IF q.kind = "code"
    THEN [i \in 1..total |-> [path |-> i]]
    ELSE Expand(SelectSeq(population, LAMBDA e : InWindow(e, q)))

\* the items array of the 2xx body answering page `p` of the query, per_page = PER_PAGE
ServerPage(q, p) ==
    SubSeq(Matches(q), (p - 1) * PER_PAGE + 1, Min(p * PER_PAGE, Len(Matches(q))))

-----------------------------------------------------------------------------
(* Inputs *)

Totals == {k * PER_PAGE + r : k \in 0..MaxFullPages, r \in {0, ShortPage}}

SmallPopulation == [i \in 1..(MaxStars + 1) |-> [stars |-> MaxStars + 1 - i, count |-> 1]]

DeployedPopulation ==
    << [stars |-> DEPLOYED_MAX_STARS, count |-> 1],
       [stars |-> DEPLOYED_MAX_STARS \div 2, count |-> 1],
       [stars |-> DEPLOYED_MIN_STARS + 1, count |-> 2],
       [stars |-> DEPLOYED_MIN_STARS, count |-> 1],
       [stars |-> DEPLOYED_MIN_STARS - 1, count |-> 1] >>

\* more repositories in one window than ten pages hold
CrowdedPopulation ==
    << [stars |-> 3, count |-> PAGE_CEILING * PER_PAGE + ShortPage],
       [stars |-> 2, count |-> 1],
       [stars |-> 1, count |-> 1] >>

OccurrenceQuery == [kind |-> "code", min_stars |-> 0, max_stars |-> 0]
RepositoryQuery(lo, hi) == [kind |-> "repo", min_stars |-> lo, max_stars |-> hi]

NoResponse == [status |-> "none", secondary |-> FALSE,
               header |-> [kind |-> "absent", value |-> 0], now |-> 0]
NoUrl == [path |-> "", q |-> OccurrenceQuery, page |-> 0, per_page |-> 0]

NoProcess == [single |-> "none", panicked |-> FALSE]

InitTransport ==
    /\ tpc = "idle"
    /\ url = NoUrl
    /\ attempts = <<>>
    /\ inflight = 0
    /\ log = <<>>
    /\ throttled = 0
    /\ wait = 0
    /\ resp = NoResponse

\* main, input branch: api.get_occurrences(occurrence_query)
InitOccurrences ==
    /\ api = "get_occurrences"
    /\ total \in Totals
    /\ population = <<>>
    /\ min_stars = 0
    /\ max_stars = 0
    /\ unfold_state = 0
    /\ inner = TRUE
    /\ query = OccurrenceQuery
    /\ page = Some(1)

\* main, else branch: api.get_repositories(repo_query)
InitRepositories ==
    /\ api = "get_repositories"
    /\ total = 0
    /\ \/ /\ min_stars = DEPLOYED_MIN_STARS
          /\ max_stars = DEPLOYED_MAX_STARS
          /\ population = DeployedPopulation
       \/ /\ min_stars \in 0..MaxStars
          /\ max_stars \in min_stars..MaxStars
          /\ population = SmallPopulation
       \/ /\ min_stars = 1
          /\ max_stars = 4
          /\ population = CrowdedPopulation
    /\ unfold_state = max_stars
    /\ inner = FALSE
    /\ query = RepositoryQuery(min_stars, max_stars)
    /\ page = None

Init ==
    /\ overflow_checks \in BOOLEAN
    /\ InitOccurrences \/ InitRepositories
    /\ buffer = <<>>
    /\ yielded = <<>>
    /\ streamStart = 0
    /\ pagesFetched = <<>>
    /\ windows = <<>>
    /\ pc = "idle"
    /\ InitTransport
    /\ enumerators = <<>>
    /\ process = NoProcess

-----------------------------------------------------------------------------
(* The consumer: while let Some(x) = stream.next().await *)

\* mutant of PullBuffered: taking the last buffered item requests the next page
PullBuffered_Prefetches ==
    /\ pc = "idle"
    /\ buffer # <<>>
    /\ yielded' = Append(yielded, Head(buffer))
    /\ buffer' = Tail(buffer)
    /\ IF Len(buffer) = 1 /\ inner /\ page # None
       THEN /\ pagesFetched' = Append(pagesFetched, Head(page))
            /\ url' = [path |-> IF query.kind = "code" THEN "search/code"
                                ELSE "search/repositories",
                       q |-> query, page |-> Head(page), per_page |-> PER_PAGE]
            /\ attempts' = <<>>
            /\ log' = <<[kind |-> "GET", url |-> url', wait |-> 0]>>
            /\ inflight' = inflight + 1
            /\ throttled' = 0
            /\ tpc' = "sending"
            /\ pc' = "fetching"
            /\ UNCHANGED <<wait, resp>>
       ELSE UNCHANGED <<pagesFetched, pc, transportVars>>
    /\ UNCHANGED <<inner, query, page, streamStart, windows, unfold_state, inputVars>>

\* a pull served from the items already fetched
PullBuffered ==
    /\ pc = "idle"
    /\ buffer # <<>>
    /\ yielded' = Append(yielded, Head(buffer))
    /\ buffer' = Tail(buffer)
    /\ UNCHANGED <<inner, query, page, streamStart, pagesFetched, windows, unfold_state>>
    /\ UNCHANGED <<pc, transportVars, inputVars>>

\* a pull that finds nothing buffered polls the unfold closures
PullEmpty ==
    /\ pc = "idle"
    /\ buffer = <<>>
    /\ pc' = "polling"
    /\ UNCHANGED <<streamVars, transportVars, inputVars>>

\* the first item of a page just fetched answers the pull in progress
YieldItem ==
    /\ pc = "polling"
    /\ buffer # <<>>
    /\ yielded' = Append(yielded, Head(buffer))
    /\ buffer' = Tail(buffer)
    /\ pc' = "idle"
    /\ UNCHANGED <<inner, query, page, streamStart, pagesFetched, windows, unfold_state>>
    /\ UNCHANGED <<transportVars, inputVars>>

-----------------------------------------------------------------------------
(* page_stream: futures::stream::unfold(Some(1), ...) *)

\* get_occurrences_at_page / get_repositories_at_page with get: the URL of one page
UrlFor(q, p) ==
    [path |-> IF q.kind = "code" THEN "search/code" ELSE "search/repositories",
     q |-> q, page |-> p, per_page |-> PER_PAGE]

\* mutants of NextPage: a full page ends the stream; the ceiling is one page early;
\* the ceiling is missing
NextPage_StopsOnFullPage(p, items) ==
    IF p = PAGE_CEILING \/ Len(items) <= PER_PAGE THEN None ELSE Some(p + 1)

NextPage_CeilingOffByOne(p, items) ==
    IF p = PAGE_CEILING - 1 \/ Len(items) < PER_PAGE THEN None ELSE Some(p + 1)

NextPage_NoCeiling(p, items) ==
    IF Len(items) < PER_PAGE THEN None ELSE Some(p + 1)

\* mutant of NextPage: a short page does not end the stream
NextPage_IgnoresShortPage(p, items) ==
    IF p = PAGE_CEILING THEN None ELSE Some(p + 1)

\* let next = if page == 10 || vs.items.len() < PER_PAGE { None } else { Some(page + 1) }
NextPage(p, items) ==
    IF p = PAGE_CEILING \/ Len(items) < PER_PAGE THEN None ELSE Some(p + 1)

\* info!("GET {}", url)
LogGet(u) == [kind |-> "GET", url |-> u, wait |-> 0]

\* info!("Rate limit exceeded, waiting for {} seconds", reset) and
\* info!("Secondary limit exceeded, waiting for 60 seconds")
LogWait(u, secondary, reset) ==
    [kind |-> IF secondary THEN "secondary" ELSE "rate", url |-> u,
     wait |-> IF secondary THEN SECONDARY_WAIT ELSE reset]

\* let page = page?; let vs = f(query, page).await  -- up to the first GET
StartFetch ==
    /\ pc = "polling"
    /\ inner
    /\ buffer = <<>>
    /\ page # None
    /\ pagesFetched' = Append(pagesFetched, Head(page))
    /\ url' = UrlFor(query, Head(page))
    /\ attempts' = <<>>
    /\ log' = <<LogGet(url')>>
    /\ inflight' = inflight + 1
    /\ throttled' = 0
    /\ tpc' = "sending"
    /\ pc' = "fetching"
    /\ UNCHANGED <<inner, query, page, buffer, yielded, streamStart, windows, unfold_state>>
    /\ UNCHANGED <<wait, resp, inputVars>>

\* let page = page?;  -- the unfold state is None: the page_stream ends
InnerEnd ==
    /\ pc = "polling"
    /\ inner
    /\ buffer = <<>>
    /\ page = None
    /\ IF api = "get_occurrences"
       THEN pc' = "done" /\ inner' = inner
       ELSE pc' = pc /\ inner' = FALSE
    /\ UNCHANGED <<query, page, buffer, yielded, streamStart, pagesFetched, windows,
                   unfold_state>>
    /\ UNCHANGED <<transportVars, inputVars>>

-----------------------------------------------------------------------------
(* get_repositories: futures::stream::unfold(max_stars, ...).flatten() *)

\* q.min_stars = max_stars / 2
WindowMin(upper) == upper \div 2

\* mutant of OuterEnds: the window that starts at the floor is not queried
OuterEnds_Inclusive(q_min, floor) == q_min <= floor

\* mutant of OuterEnds: a window may start one star below the floor
OuterEnds_OffByOne(q_min, floor) == q_min + 1 < floor

\* if q.min_stars < min_stars { None }
OuterEnds(q_min, floor) == q_min < floor

\* Some((repos, q.min_stars)): the next state of the unfold
NextUnfoldState(q_min) == q_min

NextWindow ==
    /\ pc = "polling"
    /\ api = "get_repositories"
    /\ ~inner
    /\ LET q_max == unfold_state
           q_min == WindowMin(unfold_state)
       IN  IF OuterEnds(q_min, min_stars)
           THEN /\ pc' = "done"
                /\ UNCHANGED streamVars
           ELSE /\ Len(windows) < MaxWindows
                /\ windows' = Append(windows, [min_stars |-> q_min, max_stars |-> q_max])
                /\ query' = RepositoryQuery(q_min, q_max)
                /\ inner' = TRUE
                /\ page' = Some(1)
                /\ streamStart' = Len(yielded)
                /\ pagesFetched' = <<>>
                /\ unfold_state' = NextUnfoldState(q_min)
                /\ UNCHANGED <<pc, buffer, yielded>>
    /\ UNCHANGED <<transportVars, inputVars>>

-----------------------------------------------------------------------------
(* Transport: get_from_url, try_get_from_url, get_reset *)

Clock == 1..MaxClock

\* the X-RateLimit-Reset header of a response: absent, not a u64, or epoch seconds
Headers ==
    {[kind |-> "absent", value |-> 0], [kind |-> "unparsable", value |-> 0]}
        \cup {[kind |-> "number", value |-> r] : r \in 0..MaxReset}

\* .and_then(|v| v.to_str().ok()).and_then(|v| v.parse::<u64>().ok())
ParseU64(h) == IF h.kind = "number" THEN Some(h.value) ELSE None

\* unsigned order of two u64 representatives
ULess(a, b) == IF (a < 0) = (b < 0) THEN a < b ELSE b < 0

\* a - b on u64: overflows iff a < b
U64Sub(a, b) == [overflow |-> ULess(a, b), val |-> a - b]

\* a + b on u64, b a small constant: overflows iff the sum passes 2^64
U64Add(a, b) == [overflow |-> a < 0 /\ a + b >= 0, val |-> a + b]

Panic == [panic |-> TRUE, val |-> 0]
Value(v) == [panic |-> FALSE, val |-> v]

\* .map(|v| v - now).unwrap_or(0) + 1
get_reset(header, now) ==
    LET parsed == ParseU64(header)
        diff == IF parsed = None THEN [overflow |-> FALSE, val |-> 0]
                ELSE U64Sub(Head(parsed), now)
        sum == U64Add(diff.val, 1)
    IN  IF overflow_checks /\ (diff.overflow \/ sum.overflow)
        THEN Panic
        ELSE Value(sum.val)

\* if text.contains("secondary") { SecondaryLimit } else { RateLimit(reset) },
\* and the match of get_from_url on it
WaitFor(secondary, reset) == IF secondary THEN SECONDARY_WAIT ELSE reset

\* try_get_from_url answers Success: get_from_url breaks out of its loop and the
\* page_stream closure computes its next state
GetSuccess ==
    /\ pc = "fetching"
    /\ tpc = "sending"
    /\ resp' = [status |-> "2xx", secondary |-> FALSE,
                header |-> [kind |-> "absent", value |-> 0], now |-> 0]
    /\ buffer' = ServerPage(url.q, url.page)
    /\ page' = NextPage(Head(page), buffer')
    /\ attempts' = <<>>
    /\ log' = <<>>
    /\ inflight' = inflight - 1
    /\ throttled' = 0
    /\ wait' = 0
    /\ tpc' = "idle"
    /\ pc' = "polling"
    /\ UNCHANGED <<inner, query, yielded, streamStart, pagesFetched, windows, unfold_state>>
    /\ UNCHANGED <<url, inputVars>>

\* mutant of GetLimited: the request is sent again at once, before the sleep
GetLimited_ResendsBeforeSleep ==
    /\ pc = "fetching"
    /\ tpc = "sending"
    /\ throttled < MaxThrottles
    /\ \E secondary \in BOOLEAN, header \in Headers, t \in Clock :
          LET now == IF ParseU64(header) = None THEN 0 ELSE t
              reset == get_reset(header, now)
          IN  /\ resp' = [status |-> "non2xx", secondary |-> secondary,
                          header |-> header, now |-> now]
              /\ attempts' = Append(attempts, url)
              /\ inflight' = inflight
              /\ throttled' = throttled + 1
              /\ IF reset.panic
                 THEN /\ tpc' = "panicked"
                      /\ pc' = "panicked"
                      /\ wait' = wait
                      /\ log' = log
                 ELSE /\ tpc' = "sleeping"
                      /\ pc' = pc
                      /\ wait' = WaitFor(secondary, reset.val)
                      /\ log' = Append(log, LogWait(url, secondary, reset.val))
    /\ UNCHANGED <<streamVars, url, inputVars>>

\* try_get_from_url meets a non-2xx response
GetLimited ==
    /\ pc = "fetching"
    /\ tpc = "sending"
    /\ throttled < MaxThrottles
    /\ \E secondary \in BOOLEAN, header \in Headers, t \in Clock :
          LET now == IF ParseU64(header) = None THEN 0 ELSE t
              reset == get_reset(header, now)
          IN  /\ resp' = [status |-> "non2xx", secondary |-> secondary,
                          header |-> header, now |-> now]
              /\ attempts' = Append(attempts, url)
              /\ inflight' = inflight - 1
              /\ throttled' = throttled + 1
              /\ IF reset.panic
                 THEN /\ tpc' = "panicked"
                      /\ pc' = "panicked"
                      /\ wait' = wait
                      /\ log' = log
                 ELSE /\ tpc' = "sleeping"
                      /\ pc' = pc
                      /\ wait' = WaitFor(secondary, reset.val)
                      /\ log' = Append(log, LogWait(url, secondary, reset.val))
    /\ UNCHANGED <<streamVars, url, inputVars>>

\* mutant of GetFatal: the error is handled like a rate limit, by a sleep and a retry
GetFatal_Retries ==
    /\ pc = "fetching"
    /\ tpc = "sending"
    /\ \E kind \in {"connection", "malformed"} :
          resp' = [status |-> kind, secondary |-> FALSE,
                   header |-> [kind |-> "absent", value |-> 0], now |-> 0]
    /\ attempts' = Append(attempts, url)
    /\ inflight' = inflight - 1
    /\ tpc' = "sleeping"
    /\ wait' = 1
    /\ UNCHANGED <<streamVars, url, log, throttled, pc, inputVars>>

\* send().await.unwrap() on a connection error, response.json().await.unwrap()
\* on a 2xx body that does not parse
GetFatal ==
    /\ pc = "fetching"
    /\ tpc = "sending"
    /\ \E kind \in {"connection", "malformed"} :
          resp' = [status |-> kind, secondary |-> FALSE,
                   header |-> [kind |-> "absent", value |-> 0], now |-> 0]
    /\ attempts' = Append(attempts, url)
    /\ inflight' = inflight - 1
    /\ tpc' = "panicked"
    /\ pc' = "panicked"
    /\ UNCHANGED <<streamVars, url, log, throttled, wait, inputVars>>

\* tokio::time::sleep(Duration::from_secs(wait)).await is over: the loop goes round,
\* with the response and the wait of the last iteration dropped
Wake ==
    /\ pc = "fetching"
    /\ tpc = "sleeping"
    /\ tpc' = "sending"
    /\ wait' = 0
    /\ resp' = NoResponse
    /\ log' = <<LogGet(url)>>
    /\ inflight' = inflight + 1
    /\ UNCHANGED <<streamVars, url, attempts, throttled, pc, inputVars>>

-----------------------------------------------------------------------------
Next ==
    \/ PullBuffered
    \/ PullEmpty
    \/ YieldItem
    \/ StartFetch
    \/ InnerEnd
    \/ NextWindow
    \/ GetSuccess
    \/ GetLimited
    \/ GetFatal
    \/ Wake

Spec == Init /\ [][Next]_vars

-----------------------------------------------------------------------------
(* Pagination: C1, C2, C3 *)

\* the items the current page_stream has yielded
Got == SubSeq(yielded, streamStart + 1, Len(yielded))

\* the current page_stream has been consumed to its end
StreamEnded ==
    /\ pagesFetched # <<>>
    /\ page = None
    /\ buffer = <<>>
    /\ pc # "fetching"

IsPrefix(s, t) == Len(s) <= Len(t) /\ \A i \in 1..Len(s) : s[i] = t[i]

FirstN(s, n) == SubSeq(s, 1, Min(n, Len(s)))

CeilDiv(a, b) == (a + b - 1) \div b

\* C1: a page_stream yields the matches of its query in the server's order, without
\* repeat or gap, and once it is fully consumed it has yielded exactly the first
\* min(N, 10 * PER_PAGE) of the N matches.
C1_YieldsFirstItemsInOrder ==
    /\ IsPrefix(Got, Matches(query))
    /\ StreamEnded => Got = FirstN(Matches(query), PAGE_CEILING * PER_PAGE)

\* C1 witness: a stream over more than 10 pages of matches was consumed to its end
\* and was cut at the ceiling.
C1_Witness ==
    /\ StreamEnded
    /\ Len(Matches(query)) > PAGE_CEILING * PER_PAGE
    /\ Len(Got) = PAGE_CEILING * PER_PAGE

\* C2 as stated: a fully consumed page_stream has made exactly
\* ceil(min(N, 10 * PER_PAGE) / PER_PAGE) page fetches.
C2_FetchCountIsCeiling ==
    StreamEnded =>
        Len(pagesFetched) =
            CeilDiv(Min(Len(Matches(query)), PAGE_CEILING * PER_PAGE), PER_PAGE)

\* C2 amended: a fully consumed page_stream has made exactly
\* min(floor(N / PER_PAGE) + 1, 10) page fetches: when N < 10 * PER_PAGE is a multiple
\* of PER_PAGE (N = 0 included) the stream ends only on fetching an empty page.
C2_FetchCountAmended ==
    StreamEnded =>
        Len(pagesFetched) = Min(Len(Matches(query)) \div PER_PAGE + 1, PAGE_CEILING)

\* C2 witness: a stream over exactly one full page ended after two fetches.
C2_Witness ==
    /\ StreamEnded
    /\ Len(Matches(query)) = PER_PAGE
    /\ Len(pagesFetched) = 2

\* C3: the page numbers a page_stream passes to its page fetch are 1, 2, ..., k with
\* k <= 10, and once page 10 has been fetched the stream's state is None, so no 11th
\* fetch follows.
C3_PageNumbersAscendToCeiling ==
    /\ \A i \in 1..Len(pagesFetched) : pagesFetched[i] = i
    /\ Len(pagesFetched) <= PAGE_CEILING
    /\ (Len(pagesFetched) = PAGE_CEILING /\ pc \notin {"fetching", "panicked"}) => page = None

\* C3 witness: ten full pages were fetched, further matches exist, and the stream ended.
C3_Witness ==
    /\ StreamEnded
    /\ pagesFetched = [i \in 1..PAGE_CEILING |-> i]
    /\ Len(Matches(query)) >= (PAGE_CEILING + 1) * PER_PAGE

-----------------------------------------------------------------------------
(* Star windows of get_repositories: C4, C5, C6, C7 *)

Covers(w, s) == w.min_stars <= s /\ s <= w.max_stars

Deployed ==
    /\ api = "get_repositories"
    /\ min_stars = DEPLOYED_MIN_STARS
    /\ max_stars = DEPLOYED_MAX_STARS

\* C4 as stated: the windows queried are [max(min_stars, m / 2), m], for m = max_stars
\* first and then the previous lower bound minus 1, and when the enumeration has ended
\* every star value of [min_stars, max_stars] lies in one of them.
C4_WindowsCoverRange ==
    api = "get_repositories" =>
        /\ \A i \in 1..Len(windows) :
              LET m == IF i = 1 THEN max_stars ELSE windows[i - 1].min_stars - 1
              IN  windows[i] = [min_stars |-> Max(min_stars, m \div 2), max_stars |-> m]
        /\ pc = "done" =>
              \A s \in min_stars..max_stars : \E i \in 1..Len(windows) : Covers(windows[i], s)

\* C5 as stated: each window's upper bound is the previous window's lower bound
\* minus 1, no star value lies in two windows, and no repository is yielded twice.
C5_WindowsDisjoint ==
    api = "get_repositories" =>
        /\ \A i \in 2..Len(windows) :
              windows[i].max_stars = windows[i - 1].min_stars - 1
        /\ \A i, j \in 1..Len(yielded) : yielded[i] = yielded[j] => i = j

\* C6: for min_stars = 1000, max_stars = 128000 the upper bounds of the windows
\* strictly decrease, every window lies within [1000, 128000], and when the
\* enumeration has ended every star value of [1000, 128000] lies in a window.
C6_DeployedWindowsCoverExactly ==
    Deployed =>
        /\ \A i \in 2..Len(windows) : windows[i].max_stars < windows[i - 1].max_stars
        /\ \A i \in 1..Len(windows) :
              /\ DEPLOYED_MIN_STARS <= windows[i].min_stars
              /\ windows[i].min_stars <= windows[i].max_stars
              /\ windows[i].max_stars <= DEPLOYED_MAX_STARS
        /\ pc = "done" =>
              \A s \in DEPLOYED_MIN_STARS..DEPLOYED_MAX_STARS :
                  \E i \in 1..Len(windows) : Covers(windows[i], s)

\* C6 witness: the deployed enumeration has ended, having queried windows from
\* the one ending at 128000 down to the one starting at 1000.
C6_Witness ==
    /\ Deployed
    /\ pc = "done"
    /\ Len(windows) > 1
    /\ windows[1].max_stars = DEPLOYED_MAX_STARS
    /\ windows[Len(windows)].min_stars = DEPLOYED_MIN_STARS

\* C7 as stated: the upper bound strictly decreases from one window to the next
\* (so that only finitely many windows are queried), for min_stars = 0 too.
C7_UpperBoundsDecrease ==
    api = "get_repositories" =>
        \A i \in 2..Len(windows) : windows[i].max_stars < windows[i - 1].max_stars

-----------------------------------------------------------------------------
(* Rate limits: C8, C9, C10 *)

\* the last response was a primary limit carrying a parsable X-RateLimit-Reset
PrimaryLimited ==
    /\ resp.status = "non2xx"
    /\ ~resp.secondary
    /\ resp.header.kind = "number"

SecondaryLimited == resp.status = "non2xx" /\ resp.secondary

\* C8 as stated: after a primary limit with reset header r read at clock t the retry
\* loop sleeps max(r - t, 0) + 1 seconds and retries, for r < t too.
C8_PrimaryWaitFlooredAtZero ==
    PrimaryLimited =>
        /\ tpc = "sleeping"
        /\ wait = Max(resp.header.value - resp.now, 0) + 1

\* C9 as stated: after a secondary limit the retry loop sleeps 60 seconds and
\* retries, whatever the X-RateLimit-Reset header of the response is.
C9_SecondaryWaitIgnoresHeader ==
    SecondaryLimited =>
        /\ tpc = "sleeping"
        /\ wait = SECONDARY_WAIT

\* C10 as stated: the fetch returns only with the body of a 2xx response, a
\* rate-limited response is always followed by a sleep and a retry and never ends
\* the fetch, the retry is never refused, and every attempt goes to the URL of the
\* first one.
C10_FetchReturnsOnlySuccess ==
    /\ (tpc = "idle" /\ resp # NoResponse) => resp.status = "2xx"
    /\ resp.status = "non2xx" => tpc = "sleeping"
    /\ tpc = "sleeping" => ENABLED Wake
    /\ \A i \in 1..Len(attempts) : attempts[i] = url

-----------------------------------------------------------------------------
(* Liveness: C11 *)

\* every request is answered and no answer is a connection error or a malformed body
LiveNext ==
    \/ PullBuffered
    \/ PullEmpty
    \/ YieldItem
    \/ StartFetch
    \/ InnerEnd
    \/ NextWindow
    \/ GetSuccess
    \/ GetLimited
    \/ Wake

\* the consumer pulls to the end, the executor runs the stream it awaits, every sleep
\* ends, and the server, which answers non-2xx at most MaxThrottles times per fetch,
\* ends by answering 2xx
Fairness ==
    /\ WF_vars(PullBuffered)
    /\ WF_vars(PullEmpty)
    /\ WF_vars(YieldItem)
    /\ WF_vars(StartFetch)
    /\ WF_vars(InnerEnd)
    /\ WF_vars(NextWindow)
    /\ WF_vars(GetSuccess)
    /\ WF_vars(Wake)

LiveSpec == Init /\ [][LiveNext]_vars /\ Fairness

\* C11 as stated: when every request is answered and rate limits are lifted in the
\* end, every blocking fetch returns and every enumeration pulled to the end ends.
C11_FetchesReturnAndEnumerationsEnd ==
    /\ (pc = "fetching") ~> (pc = "polling")
    /\ <>(pc = "done")

-----------------------------------------------------------------------------
(* Fatal errors: C12 *)

\* the last attempt met a connection error or a 2xx body that does not parse
Fatal == resp.status \in {"connection", "malformed"}

\* C12: a connection error or a malformed 2xx body ends everything: it leaves the
\* fetch and the enumeration panicked with no sleep started and no request in
\* flight, and no step follows it (no retry, no request, no item).
C12_FatalErrorIsNotRetried ==
    [][ /\ ~Fatal
        /\ Fatal' => /\ tpc' = "panicked"
                     /\ pc' = "panicked"
                     /\ inflight' = 0
                     /\ yielded' = yielded ]_vars

\* C12 witness: a fatal error met after items had been yielded.
C12_Witness ==
    /\ Fatal
    /\ Len(yielded) > 0
    /\ pc = "panicked"

-----------------------------------------------------------------------------
(* One request at a time: C13 *)

\* C13: at most one HTTP request is outstanding, none is outstanding during a
\* backoff sleep, and the fetch of a further page starts only when the fetch of
\* the page before it has returned, with no request in flight.
C13_OneOutstandingRequest ==
    [][ /\ inflight' <= 1
        /\ tpc' = "sleeping" => inflight' = 0
        /\ Len(pagesFetched') > Len(pagesFetched) =>
              /\ tpc = "idle"
              /\ inflight = 0
              /\ inflight' = 1 ]_vars

\* C13 witness: the fetch of page 2 is in its backoff sleep after a retry, with
\* nothing in flight.
C13_Witness ==
    /\ tpc = "sleeping"
    /\ pagesFetched = <<1, 2>>
    /\ throttled = 2
    /\ inflight = 0

-----------------------------------------------------------------------------
(* Fetches are driven by pulls: C14 *)

\* C14: a page is requested only in a pull that found no fetched item left and a
\* stream that has not ended; between pulls nothing of the transport moves and
\* the only steps are pulls; the pull that takes the last item of a page requests
\* nothing.
C14_FetchOnlyOnEmptyPull ==
    [][ /\ pagesFetched' # pagesFetched /\ pagesFetched' # <<>> =>
              /\ pc = "polling"
              /\ buffer = <<>>
              /\ page # None
              /\ pagesFetched' = Append(pagesFetched, Head(page))
        /\ pc = "idle" =>
              /\ tpc = "idle" /\ inflight = 0
              /\ UNCHANGED <<pagesFetched, transportVars>>
              /\ \/ pc' = "polling" /\ buffer = <<>>
                 \/ pc' = "idle" /\ yielded' = Append(yielded, Head(buffer))
        /\ Len(yielded') > Len(yielded) /\ buffer' = <<>> =>
              /\ pc' = "idle"
              /\ UNCHANGED <<pagesFetched, page, transportVars>> ]_vars

\* C14 witness: every item of a full first page has been pulled, the stream has
\* a second page to ask for, and no request for it was made.
C14_Witness ==
    /\ pc = "idle"
    /\ buffer = <<>>
    /\ Len(yielded) - streamStart = PER_PAGE
    /\ page = Some(2)
    /\ pagesFetched = <<1>>
    /\ inflight = 0

-----------------------------------------------------------------------------
(* The last page: C15 *)

\* the fetch of the page requested last has returned
LastFetchReturned == pagesFetched # <<>> /\ pc \notin {"fetching", "panicked"}

\* C15: once page k has been fetched, the stream has ended iff page k holds fewer
\* than PER_PAGE items or k = PAGE_CEILING, and otherwise it stands at page k+1;
\* a stream that has ended requests nothing more, and the request made by a pull
\* on a stream standing at page k+1 is the one for page k+1.
C15_LastPageIffShortOrCeiling ==
    [][ LET k == Len(pagesFetched)
            short == Len(ServerPage(query, k)) < PER_PAGE
        IN  /\ LastFetchReturned =>
                  /\ page = None <=> (short \/ k = PAGE_CEILING)
                  /\ page # None => page = Some(k + 1)
            /\ LastFetchReturned /\ page = None =>
                  pagesFetched' \in {pagesFetched, <<>>}
            /\ LastFetchReturned /\ page # None /\ pc = "polling" /\ buffer = <<>> =>
                  /\ pagesFetched' = Append(pagesFetched, k + 1)
                  /\ url'.page = k + 1
                  /\ url'.q = query ]_vars

\* C15 witness: three full pages and a short one (340 matches) were enumerated to
\* the end with the four requests for pages 1 to 4.
C15_Witness ==
    /\ api = "get_occurrences"
    /\ total = 3 * PER_PAGE + ShortPage
    /\ pc = "done"
    /\ pagesFetched = <<1, 2, 3, 4>>
    /\ Len(ServerPage(query, 4)) = ShortPage
    /\ Len(yielded) = total

-----------------------------------------------------------------------------
(* Windows one after another: C16 *)

LastWindow == windows[Len(windows)]

\* the page_stream of the last window was consumed to its end
WindowConsumed == ~inner /\ page = None /\ buffer = <<>> /\ tpc = "idle"

\* the parts of C16 about the order of fetches, items and windows: a window is
\* opened only when the one before it was consumed to its end, it starts at page
\* 1 and lies at or below the floor of the one before it, whether or not that one
\* was cut at the page ceiling; every request and every item belongs to the
\* window opened last.
WindowsOneAfterAnother ==
    [][ api = "get_repositories" =>
          /\ Len(windows') > Len(windows) =>
                /\ windows' = Append(windows, [min_stars |-> query'.min_stars,
                                               max_stars |-> query'.max_stars])
                /\ windows # <<>> =>
                      /\ WindowConsumed
                      /\ query'.max_stars <= LastWindow.min_stars
                /\ page' = Some(1)
                /\ pagesFetched' = <<>>
                /\ yielded' = yielded
          /\ Len(pagesFetched') > Len(pagesFetched) =>
                /\ url'.q = RepositoryQuery(LastWindow.min_stars, LastWindow.max_stars)
                /\ url'.page = Len(pagesFetched')
                /\ windows' = windows
          /\ Len(yielded') > Len(yielded) =>
                /\ yielded'[Len(yielded')].stargazers_count
                      \in LastWindow.min_stars..LastWindow.max_stars
                /\ windows' = windows ]_vars

\* the last window was cut at the page ceiling and a further window was opened
TruncatedThenContinued ==
    /\ api = "get_repositories"
    /\ Len(windows) = 2
    /\ Len(yielded) = PAGE_CEILING * PER_PAGE + 1
    /\ Len(Matches(RepositoryQuery(windows[1].min_stars, windows[1].max_stars)))
          > PAGE_CEILING * PER_PAGE
    /\ pagesFetched = <<1>>

\* C16 as stated: the windows are in descending star order and are processed one
\* after another, each from page 1, all requests and items of one window before
\* the first request of the next.
C16_WindowsDescendOneAfterAnother ==
    /\ WindowsOneAfterAnother
    /\ [](api = "get_repositories" =>
            \A i \in 2..Len(windows) :
                /\ windows[i].max_stars < windows[i - 1].max_stars
                /\ windows[i].min_stars < windows[i - 1].min_stars)

-----------------------------------------------------------------------------
(* Windows within the caller's range: C17 *)

WithinRange(w) ==
    /\ min_stars <= w.min_stars
    /\ w.min_stars <= w.max_stars
    /\ w.max_stars <= max_stars

\* C17: every window of get_repositories, and the query of every repository
\* search request it sends, has min_stars <= w.min <= w.max <= max_stars.
C17_WindowsWithinRange ==
    api = "get_repositories" =>
        /\ \A i \in 1..Len(windows) : WithinRange(windows[i])
        /\ url # NoUrl =>
              /\ url.path = "search/repositories"
              /\ WithinRange(url.q)
              /\ \E i \in 1..Len(windows) :
                    url.q = RepositoryQuery(windows[i].min_stars, windows[i].max_stars)

\* C17 witness: with a floor above 0, a request is in flight for a second window
\* that starts exactly at the floor.
C17_Witness ==
    /\ api = "get_repositories"
    /\ min_stars > 0
    /\ Len(windows) > 1
    /\ tpc = "sending"
    /\ url.q = RepositoryQuery(min_stars, windows[Len(windows)].max_stars)
    /\ url.q.max_stars < max_stars

-----------------------------------------------------------------------------
(* Several streams over one GithubApi *)

\* The streams returned by get_occurrences and get_repositories borrow &self and
\* own their unfold states; main polls one stream and calls
\* get_repository_languages between its pulls. Here two streams and single
\* fetches are polled in any order. Each stream's state is one record of
\* `enumerators`; a panic ends the whole process.

EnumeratorNames == {"first", "second"}

NewEnumerator(a, lo, hi) ==
    [api |-> a, min_stars |-> lo, max_stars |-> hi,
     unfold_state |-> IF a = "get_repositories" THEN hi ELSE 0,
     inner |-> a = "get_occurrences",
     query |-> IF a = "get_occurrences" THEN OccurrenceQuery ELSE RepositoryQuery(lo, hi),
     page |-> IF a = "get_occurrences" THEN Some(1) ELSE None,
     buffer |-> <<>>, yielded |-> <<>>, requests |-> <<>>, windows |-> <<>>,
     pc |-> "idle", backoffs |-> 0]

InterleavedTotals == {ShortPage, PER_PAGE}

InterleavedInit ==
    /\ overflow_checks \in BOOLEAN
    /\ api = "get_occurrences"
    /\ total \in InterleavedTotals
    /\ population = SmallPopulation
    /\ min_stars = 0
    /\ max_stars = 0
    /\ unfold_state = 0
    /\ inner = TRUE
    /\ query = OccurrenceQuery
    /\ page = Some(1)
    /\ buffer = <<>>
    /\ yielded = <<>>
    /\ streamStart = 0
    /\ pagesFetched = <<>>
    /\ windows = <<>>
    /\ pc = "idle"
    /\ InitTransport
    /\ \E lo \in 1..2 :
          /\ enumerators \in
                [EnumeratorNames ->
                    {NewEnumerator("get_occurrences", 0, 0),
                     NewEnumerator("get_repositories", lo, MaxStars)}]
          /\ enumerators["second"].api = "get_repositories"
    /\ process = [single |-> "idle", panicked |-> FALSE]

soloVars == <<streamVars, pc, transportVars, overflow_checks, api, total, population,
              min_stars, max_stars>>

Running(e) == ~process.panicked /\ enumerators[e].pc # "done"

Update(e, r) ==
    /\ enumerators' = [enumerators EXCEPT ![e] = r]
    /\ UNCHANGED <<process, soloVars>>

\* PullBuffered, for stream e
EnumPullBuffered(e) ==
    LET r == enumerators[e]
    IN  /\ Running(e)
        /\ r.pc = "idle"
        /\ r.buffer # <<>>
        /\ Update(e, [r EXCEPT !.yielded = Append(r.yielded, Head(r.buffer)),
                               !.buffer = Tail(r.buffer)])

\* PullEmpty, for stream e
EnumPullEmpty(e) ==
    LET r == enumerators[e]
    IN  /\ Running(e)
        /\ r.pc = "idle"
        /\ r.buffer = <<>>
        /\ Update(e, [r EXCEPT !.pc = "polling"])

\* YieldItem, for stream e
EnumYieldItem(e) ==
    LET r == enumerators[e]
    IN  /\ Running(e)
        /\ r.pc = "polling"
        /\ r.buffer # <<>>
        /\ Update(e, [r EXCEPT !.yielded = Append(r.yielded, Head(r.buffer)),
                               !.buffer = Tail(r.buffer),
                               !.pc = "idle"])

\* StartFetch, for stream e
EnumStartFetch(e) ==
    LET r == enumerators[e]
    IN  /\ Running(e)
        /\ r.pc = "polling"
        /\ r.inner
        /\ r.buffer = <<>>
        /\ r.page # None
        /\ Update(e, [r EXCEPT !.requests = Append(r.requests, UrlFor(r.query, Head(r.page))),
                               !.backoffs = 0,
                               !.pc = "sending"])

\* InnerEnd, for stream e
EnumInnerEnd(e) ==
    LET r == enumerators[e]
    IN  /\ Running(e)
        /\ r.pc = "polling"
        /\ r.inner
        /\ r.buffer = <<>>
        /\ r.page = None
        /\ Update(e, IF r.api = "get_occurrences"
                     THEN [r EXCEPT !.pc = "done"]
                     ELSE [r EXCEPT !.inner = FALSE])

\* NextWindow, for stream e
EnumNextWindow(e) ==
    LET r == enumerators[e]
        q_max == r.unfold_state
        q_min == WindowMin(r.unfold_state)
    IN  /\ Running(e)
        /\ r.pc = "polling"
        /\ r.api = "get_repositories"
        /\ ~r.inner
        /\ Update(e, IF OuterEnds(q_min, r.min_stars)
                     THEN [r EXCEPT !.pc = "done"]
                     ELSE [r EXCEPT !.windows = Append(r.windows,
                                                       RepositoryQuery(q_min, q_max)),
                                    !.query = RepositoryQuery(q_min, q_max),
                                    !.inner = TRUE,
                                    !.page = Some(1),
                                    !.unfold_state = NextUnfoldState(q_min)])

\* mutant of EnumGetSuccess: the page cursor is one field shared by every stream
EnumGetSuccess_SharedCursor(e) ==
    LET r == enumerators[e]
        u == r.requests[Len(r.requests)]
        items == ServerPage(u.q, u.page)
        next == NextPage(Head(r.page), items)
    IN  /\ Running(e)
        /\ r.pc = "sending"
        /\ enumerators' =
              [n \in EnumeratorNames |->
                  IF n = e
                  THEN [r EXCEPT !.buffer = items, !.page = next, !.backoffs = 0,
                                 !.pc = "polling"]
                  ELSE [enumerators[n] EXCEPT !.page = next]]
        /\ UNCHANGED <<process, soloVars>>

\* GetSuccess, for stream e
EnumGetSuccess(e) ==
    LET r == enumerators[e]
        u == r.requests[Len(r.requests)]
        items == ServerPage(u.q, u.page)
    IN  /\ Running(e)
        /\ r.pc = "sending"
        /\ Update(e, [r EXCEPT !.buffer = items,
                               !.page = NextPage(Head(r.page), items),
                               !.backoffs = 0,
                               !.pc = "polling"])

\* GetLimited, for stream e: a panic in get_reset ends the process
EnumGetLimited(e) ==
    LET r == enumerators[e]
    IN  /\ Running(e)
        /\ r.pc = "sending"
        /\ r.backoffs < MaxBackoffs
        /\ \E header \in Headers, t \in Clock :
              LET now == IF ParseU64(header) = None THEN 0 ELSE t
              IN  IF get_reset(header, now).panic
                  THEN /\ process' = [process EXCEPT !.panicked = TRUE]
                       /\ UNCHANGED <<enumerators, soloVars>>
                  ELSE Update(e, [r EXCEPT !.backoffs = r.backoffs + 1,
                                           !.pc = "sleeping"])

\* GetFatal, for stream e
EnumGetFatal(e) ==
    /\ Running(e)
    /\ enumerators[e].pc = "sending"
    /\ process' = [process EXCEPT !.panicked = TRUE]
    /\ UNCHANGED <<enumerators, soloVars>>

\* Wake, for stream e
EnumWake(e) ==
    LET r == enumerators[e]
    IN  /\ Running(e)
        /\ r.pc = "sleeping"
        /\ Update(e, [r EXCEPT !.pc = "sending"])

\* self.get::<_, &str, &str>(path, &[]).await of get_repository_languages: one
\* get_from_url that belongs to no stream
SingleFetch ==
    /\ ~process.panicked
    /\ \/ process.single = "idle" /\ process' = [process EXCEPT !.single = "sending"]
       \/ process.single = "sending" /\ process' = [process EXCEPT !.single = "sleeping"]
       \/ process.single = "sleeping" /\ process' = [process EXCEPT !.single = "sending"]
       \/ process.single = "sending" /\ process' = [process EXCEPT !.single = "idle"]
    /\ UNCHANGED <<enumerators, soloVars>>

InterleavedNext ==
    \/ \E e \in EnumeratorNames :
          \/ EnumPullBuffered(e)
          \/ EnumPullEmpty(e)
          \/ EnumYieldItem(e)
          \/ EnumStartFetch(e)
          \/ EnumInnerEnd(e)
          \/ EnumNextWindow(e)
          \/ EnumGetSuccess(e)
          \/ EnumGetLimited(e)
          \/ EnumGetFatal(e)
          \/ EnumWake(e)
    \/ SingleFetch

InterleavedSpec == InterleavedInit /\ [][InterleavedNext]_vars

-----------------------------------------------------------------------------
(* Independence of interleaved enumerations: C18 *)

\* what one page_stream over query q requests and yields when polled alone,
\* from page p on
RECURSIVE SoloPages(_, _)
SoloPages(q, p) ==
    LET next == NextPage(p, ServerPage(q, p))
    IN  IF next = None THEN <<p>> ELSE <<p>> \o SoloPages(q, Head(next))

RECURSIVE SoloPageItems(_, _)
SoloPageItems(q, ps) ==
    IF ps = <<>> THEN <<>> ELSE ServerPage(q, Head(ps)) \o SoloPageItems(q, Tail(ps))

SoloStreamRequests(q) ==
    LET ps == SoloPages(q, 1) IN [i \in 1..Len(ps) |-> UrlFor(q, ps[i])]

SoloStreamItems(q) == SoloPageItems(q, SoloPages(q, 1))

\* the windows get_repositories queries when polled alone, from unfold state m on
RECURSIVE SoloWindows(_, _)
SoloWindows(m, floor) ==
    IF OuterEnds(WindowMin(m), floor) THEN <<>>
    ELSE <<RepositoryQuery(WindowMin(m), m)>>
            \o SoloWindows(NextUnfoldState(WindowMin(m)), floor)

RECURSIVE SoloWindowRequests(_)
SoloWindowRequests(ws) ==
    IF ws = <<>> THEN <<>>
    ELSE SoloStreamRequests(Head(ws)) \o SoloWindowRequests(Tail(ws))

RECURSIVE SoloWindowItems(_)
SoloWindowItems(ws) ==
    IF ws = <<>> THEN <<>>
    ELSE SoloStreamItems(Head(ws)) \o SoloWindowItems(Tail(ws))

\* what stream r requests and yields when it is the only one polled
Solo(r) ==
    IF r.api = "get_occurrences"
    THEN [requests |-> SoloStreamRequests(OccurrenceQuery),
          items |-> SoloStreamItems(OccurrenceQuery),
          windows |-> <<>>]
    ELSE LET ws == SoloWindows(r.max_stars, r.min_stars)
         IN  [requests |-> SoloWindowRequests(ws), items |-> SoloWindowItems(ws),
              windows |-> ws]

\* C18: whatever the order in which two streams over one GithubApi, and single
\* fetches beside them, are polled, each stream requests the pages and windows
\* and yields the items it requests and yields when polled alone, in the same
\* order, and when it ends it has requested and yielded all of them.
C18_InterleavedEnumerationsIndependent ==
    \A e \in DOMAIN enumerators :
        LET r == enumerators[e]
            solo == Solo(r)
        IN  /\ IsPrefix(r.requests, solo.requests)
            /\ IsPrefix(r.windows, solo.windows)
            /\ IsPrefix(r.yielded, solo.items)
            /\ r.pc = "done" =>
                  /\ r.requests = solo.requests
                  /\ r.windows = solo.windows
                  /\ r.yielded = solo.items

\* C18 witness: a code search and a repository enumeration were polled in turn;
\* the first has ended after two pages, the second is in a backoff sleep in its
\* second window, and a single fetch is in flight.
C18_Witness ==
    /\ DOMAIN enumerators = EnumeratorNames
    /\ enumerators["first"].api = "get_occurrences"
    /\ enumerators["first"].pc = "done"
    /\ Len(enumerators["first"].requests) = 2
    /\ enumerators["second"].api = "get_repositories"
    /\ enumerators["second"].pc = "sleeping"
    /\ Len(enumerators["second"].windows) = 2
    /\ Len(enumerators["second"].yielded) > 0
    /\ process.single = "sending"

-----------------------------------------------------------------------------
(* The sleep before a retry: C19 *)

\* C19 as stated: the sleep that precedes a retry lasts at least 1 second, and
\* exactly 1 second after a primary limit whose X-RateLimit-Reset header is absent
\* or is not a u64.
C19_SleepAtLeastOneSecond ==
    tpc = "sleeping" =>
        /\ ~ULess(wait, 1)
        /\ (~resp.secondary /\ ParseU64(resp.header) = None) => wait = 1

-----------------------------------------------------------------------------
(* Log records: C20 *)

\* C20 as stated: the attempt in progress is preceded by exactly one GET record
\* with its URL, and a rate-limited attempt is followed by one record with the
\* wait that is slept, 60 for a secondary limit.
C20_AttemptsAndWaitsLogged ==
    /\ tpc = "sending" => log = <<LogGet(url)>>
    /\ resp.status = "non2xx" =>
          /\ Len(log) = 2
          /\ log[1] = LogGet(url)
          /\ log[2].kind = IF resp.secondary THEN "secondary" ELSE "rate"
          /\ log[2].url = url
          /\ log[2].wait = wait
          /\ resp.secondary => wait = SECONDARY_WAIT

====
